---- MODULE Spec2Model ----
(***************************************************************************)
(* The conda Ansible module (library/conda.py): one run of run_module      *)
(* against a conda installation, and the pure helpers of class Conda.      *)
(*                                                                         *)
(* Python strings are sequences of one-character strings, so that          *)
(* str.split, the '=' joins of install_packages and `os.path.sep in env`   *)
(* are computed and not assumed.  Command-line options ("--yes", "list")   *)
(* are one-element sequences holding the whole word.                       *)
(***************************************************************************)
EXTENDS Integers, Sequences, FiniteSets, TLC

\* ------------------------------------------------------------------------
\* Bounds of the model.

\* Longest `name` list a run is given.
MaxTargets == 2

\* ------------------------------------------------------------------------
\* Python values.

\* Python's None (no one-character string is "None").
None == <<"None">>

\* Truthiness of an optional string: None and '' are falsy.
Truthy(s) == s # None /\ s # <<>>

\* A command-line word that is not user text.
Word(w) == <<w>>

\* `c in s` for a one-character c.
Contains(s, c) == \E i \in 1..Len(s) : s[i] = c

\* Index of the first c in s (s contains c).
FirstIndex(s, c) == CHOOSE i \in 1..Len(s) : s[i] = c /\ \A j \in 1..(i - 1) : s[j] # c

\* str.split(c): the pieces between the separators, empty pieces kept.
RECURSIVE Split(_, _)
Split(s, c) ==
    IF ~Contains(s, c) THEN <<s>>
    ELSE LET i == FirstIndex(s, c)
         IN  <<SubSeq(s, 1, i - 1)>> \o Split(SubSeq(s, i + 1, Len(s)), c)

\* The slice l[:n].
Take(l, n) == SubSeq(l, 1, IF n < Len(l) THEN n ELSE Len(l))

\* The lists of a list of lists, joined.
RECURSIVE Concat(_)
Concat(ll) == IF ll = <<>> THEN <<>> ELSE Head(ll) \o Concat(Tail(ll))

\* ------------------------------------------------------------------------
\* Conda's static helpers.

\* os.path.sep
Sep == "/"

\* Conda.split_name_version
split_name_version(package_spec, default_version) ==
    IF Contains(package_spec, "=")
    THEN LET splits == Split(package_spec, "=")
         IN  [name    |-> splits[1],
              version |-> splits[2],
              build   |-> IF Len(splits) > 2 THEN splits[3] ELSE None]
    ELSE [name |-> package_spec, version |-> default_version, build |-> None]

\* Conda._is_present with the version comparison left out.
_is_present_any_version(package, installed_packages, check_version) ==
    \E i \in 1..Len(installed_packages) : installed_packages[i].name = package.name

\* Conda._is_present comparing the whole version strings and not their
\* first components.
_is_present_exact(package, installed_packages, check_version) ==
    LET match == SelectSeq(installed_packages, LAMBDA p : p.name = package.name)
    IN  IF match = <<>> THEN FALSE
        ELSE IF Truthy(package.version) /\ check_version
             THEN package.version = match[1].version
             ELSE TRUE

\* Conda._is_present
_is_present(package, installed_packages, check_version) ==
    LET target_name == package.name
        match == SelectSeq(installed_packages, LAMBDA p : p.name = target_name)
    IN  IF match = <<>> THEN FALSE
        ELSE LET installed_package == match[1]
                 target_version == package.version
             IN  IF Truthy(target_version) /\ check_version
                 THEN LET tv == Split(target_version, ".")
                          iv == Split(installed_package.version, ".")
                      IN  tv = Take(iv, Len(tv))
                 ELSE TRUE

\* Conda.get_absent_packages
get_absent_packages(target_packages, installed_packages, check_version) ==
    SelectSeq(target_packages,
              LAMBDA p : ~_is_present(p, installed_packages, check_version))

\* Conda.get_present_packages
get_present_packages(target_packages, installed_packages, check_version) ==
    SelectSeq(target_packages,
              LAMBDA p : _is_present(p, installed_packages, check_version))

\* ------------------------------------------------------------------------
\* The values a run meets.

\* Package names, in the order `conda list` prints them.
PkgNames == << <<"a">>, <<"b">> >>

V127 == <<"1", ".", "2", ".", "7">>
V13 == <<"1", ".", "3">>

\* The versions the channels offer of each package, oldest first.
Avail(n) == IF n = <<"a">> THEN <<V127, V13>> ELSE <<V13>>

\* The package tokens a `name` list is made of: name, name=version,
\* name=version=build.
Tokens ==
    { <<"a">>,
      <<"a", "=", "1", ".", "2">>,
      <<"b", "=", "1", ".", "3", "=", "x">> }

\* The `version` parameter.
DefaultVersions == {None, V13}

\* The `channels` parameter.
ChannelLists == { <<>>, << <<"f">> >> }

\* The `environment` parameter: unset, base, a name, a path.
Base == <<"b", "a", "s", "e">>
EnvName == <<"r">>
EnvPath == <<"/", "o", "/", "R">>
Environments == {None, Base, EnvName, EnvPath}

\* The `executable` parameter, and the conda found on PATH.
ExePath == <<"/", "x">>
PathConda == <<"/", "c">>

\* Sequences over S of length at most n.
SeqUpTo(S, n) == UNION { [1..k -> S] : k \in 0..n }

\* ------------------------------------------------------------------------
\* The conda installation the commands act on.  An environment is its
\* prefix directory; `envs` maps each existing prefix to the version
\* installed there of each package (None: not installed).

\* The root prefix (the base environment) and the directory of named
\* environments.
RootPrefix == <<"/", "c">>
EnvsDir == <<"/", "c", "/", "e">>

\* The prefix of the environment called n.
PrefixOfName(n) == IF n = Base THEN RootPrefix ELSE EnvsDir \o <<Sep>> \o n

\* Every prefix of the model, in the order `conda env list` prints them:
\* its JSON `envs` holds the prefix path of each environment, the root
\* prefix first, and no environment names.
AllPrefixes == <<RootPrefix, PrefixOfName(EnvName), EnvPath>>

NoPackages == [n \in {PkgNames[i] : i \in 1..Len(PkgNames)} |-> None]

PackageMaps ==
    { m \in [{PkgNames[i] : i \in 1..Len(PkgNames)} -> {None, V127, V13}] :
        \A n \in DOMAIN m :
            m[n] # None => \E i \in 1..Len(Avail(n)) : Avail(n)[i] = m[n] }

\* The element after `flag` in a command line, None without one.
ArgAfter(argv, flag) ==
    IF \E i \in 1..(Len(argv) - 1) : argv[i] = Word(flag)
    THEN argv[(CHOOSE i \in 1..(Len(argv) - 1) : argv[i] = Word(flag)) + 1]
    ELSE None

\* The prefix a command line addresses: --prefix, --name, or the root.
TargetPrefix(argv) ==
    IF ArgAfter(argv, "--prefix") # None THEN ArgAfter(argv, "--prefix")
    ELSE IF ArgAfter(argv, "--name") # None
         THEN PrefixOfName(ArgAfter(argv, "--name"))
         ELSE RootPrefix

\* The words of a command line that are options or option values.
OptionWords == {Word("--quiet"), Word("--yes"), Word("--json"), Word("--dry-run"),
                Word("--prefix"), Word("--name"), Word("--channel")}
ValueOptions == {Word("--prefix"), Word("--name"), Word("--channel")}

\* The package arguments of a package command line (after the executable
\* and the subcommand), in order.
RECURSIVE PackageArgsFrom(_, _)
PackageArgsFrom(argv, i) ==
    IF i > Len(argv) THEN <<>>
    ELSE IF argv[i] \in ValueOptions THEN PackageArgsFrom(argv, i + 2)
    ELSE IF argv[i] \in OptionWords THEN PackageArgsFrom(argv, i + 1)
    ELSE <<argv[i]>> \o PackageArgsFrom(argv, i + 1)

PackageArgs(argv) == PackageArgsFrom(argv, 3)

\* conda's match of a version against a requested one: the requested
\* components are a prefix of the version's; no request matches all.
CondaMatches(requested, version) ==
    ~Truthy(requested)
    \/ LET r == Split(requested, ".")
           v == Split(version, ".")
       IN  Len(r) <= Len(v) /\ SubSeq(v, 1, Len(r)) = r

\* The newest offered version of n that every token of n in `specs` accepts,
\* None when there is none.
Solve(n, specs) ==
    LET ok(v) == \A i \in 1..Len(specs) :
                    specs[i].name = n => CondaMatches(specs[i].version, v)
        idx == {i \in 1..Len(Avail(n)) : ok(Avail(n)[i])}
    IN  IF idx = {} THEN None
        ELSE Avail(n)[CHOOSE i \in idx : \A j \in idx : j <= i]

\* The newest offered version of n.
Latest(n) == Avail(n)[Len(Avail(n))]

\* What a successful `conda <subcommand> --json` prints and leaves behind,
\* as a set of [out, world]: empty when conda can only refuse the command.
CondaDoes(argv, w) ==
    LET p == TargetPrefix(argv)
        sub == argv[2]
        args == PackageArgs(argv)
        specs == [i \in 1..Len(args) |-> split_name_version(args[i], None)]
        named == {specs[i].name : i \in 1..Len(specs)}
        known == \A n \in named : \E i \in 1..Len(PkgNames) : PkgNames[i] = n
        put(m) == [q \in DOMAIN w |-> IF q = p THEN m ELSE w[q]]
    IN  CASE sub = Word("env") ->
               { [out   |-> [envs |-> SelectSeq(AllPrefixes, LAMBDA q : q \in DOMAIN w)],
                  world |-> w] }
          [] sub = Word("list") ->
               IF p \notin DOMAIN w THEN {}
               ELSE { [out   |-> LET inst == SelectSeq(PkgNames, LAMBDA n : w[p][n] # None)
                                 IN  [i \in 1..Len(inst) |->
                                        [name |-> inst[i], version |-> w[p][inst[i]],
                                         channel |-> "pkgs/main"]],
                       world |-> w] }
          [] sub = Word("create") ->
               \* an existing prefix is replaced by an empty environment
               { [out   |-> [success |-> TRUE, prefix |-> p],
                  world |-> [q \in DOMAIN w \cup {p} |->
                                IF q = p THEN NoPackages ELSE w[q]]] }
          [] sub = Word("install") ->
               IF p \notin DOMAIN w \/ ~known
                  \/ \E n \in named : Solve(n, specs) = None
               THEN {}
               ELSE LET keeps(n) == /\ w[p][n] # None
                                    /\ \A i \in 1..Len(specs) :
                                          specs[i].name = n
                                            => CondaMatches(specs[i].version, w[p][n])
                        m == [n \in DOMAIN w[p] |->
                                IF n \in named /\ ~keeps(n)
                                THEN Solve(n, specs) ELSE w[p][n]]
                    IN  { [out   |-> IF m = w[p]
                                     THEN [success |-> TRUE]
                                     ELSE [success |-> TRUE, actions |-> <<"FETCH", "LINK">>],
                           world |-> put(m)] }
          [] sub = Word("remove") ->
               IF p \notin DOMAIN w \/ ~known \/ \E n \in named : w[p][n] = None
               THEN {}
               ELSE { [out   |-> [success |-> TRUE, actions |-> <<"UNLINK">>],
                       world |-> put([n \in DOMAIN w[p] |->
                                        IF n \in named THEN None ELSE w[p][n]])] }
          [] sub = Word("update") ->
               IF p \notin DOMAIN w \/ ~known \/ \E n \in named : w[p][n] = None
               THEN {}
               ELSE LET m == [n \in DOMAIN w[p] |->
                                IF n \in named THEN Latest(n) ELSE w[p][n]]
                        dry == \E i \in 1..Len(argv) : argv[i] = Word("--dry-run")
                    IN  { [out   |-> IF m = w[p]
                                     THEN [success |-> TRUE]
                                     ELSE [success |-> TRUE,
                                           actions |-> <<"UNLINK", "LINK">>],
                           world |-> IF dry THEN w ELSE put(m)] }

\* Output that is not JSON.
Garbage == "not json"

\* How conda may answer a command: JSON on exit 0, no JSON on exit 0, a JSON
\* error on a nonzero exit, no JSON on a nonzero exit.
Answers == {"ok", "no_json", "error_json", "error_text"}

\* What conda did when it answers `a`: one of CondaDoes on exit 0 (none when
\* it can only refuse), nothing on a nonzero exit.
Outcomes(a, argv, w) ==
    IF a \in {"ok", "no_json"} THEN CondaDoes(argv, w)
    ELSE { [out |-> Garbage, world |-> w] }

\* module.run_command(cmd), conda answering `a` after doing d: the exit code,
\* stdout (parseable or not, and its JSON value) and the installation left.
run_command(a, d) ==
    [rc        |-> IF a \in {"ok", "no_json"} THEN 0 ELSE 1,
     parseable |-> a \in {"ok", "error_json"},
     out       |-> CASE a = "ok" -> d.out
                     [] a = "error_json" ->
                          [error |-> "CondaError", exception_name |-> "CondaError",
                           exception_type |-> "CondaError"]
                     [] OTHER -> Garbage,
     world     |-> d.world]

\* ------------------------------------------------------------------------
\* The state of a run.

VARIABLES
    params,             \* module.params
    check_mode,         \* module.check_mode
    executable,         \* Conda.executable
    env_args,           \* Conda.env_args
    pc,                 \* where run_module stands
    result,             \* run_module's result dict
    failure,            \* the msg of fail_json, "" while none was called
    installed_packages, \* run_module's installed_packages
    dry_actions,        \* run_module's dry_actions
    cmds,               \* the command lines handed to run_command, in order
    answered,           \* how conda answered the last of them, "" before any
    envs,               \* the conda installation
    envs0,              \* the conda installation the run started from
    first,              \* the run before this one, for a second run
    query               \* a call of Conda._is_present and its answer

vars == <<params, check_mode, executable, env_args, pc, result, failure,
          installed_packages, dry_actions, cmds, answered, envs, envs0, first, query>>

\* Conda.__init__, the env_args of an environment
EnvArgs(env) ==
    IF Truthy(env)
    THEN <<IF Contains(env, Sep) THEN Word("--prefix") ELSE Word("--name"), env>>
    ELSE <<>>

\* Conda._get_conda: the path, or the failure message.  isfile is
\* os.path.isfile(executable), bin_path is module.get_bin_path('conda').
_get_conda(exe, isfile, bin_path) ==
    IF Truthy(exe)
    THEN IF isfile THEN [conda_exe |-> exe, msg |-> ""]
         ELSE [conda_exe |-> None, msg |-> "is not a valid conda executable"]
    ELSE IF Truthy(bin_path) THEN [conda_exe |-> bin_path, msg |-> ""]
         ELSE [conda_exe |-> None,
               msg |-> "conda not found in PATH, executable not specified."]

\* The command line Conda._run_conda builds.
CondaCmd(exe, subcmd, args) == <<exe>> \o subcmd \o args \o <<Word("--json")>>

\* Conda._run_conda, after run_command answered r (check_rc is never passed,
\* so it is True): the parsed output, or the failure message.
_run_conda(r) ==
    IF r.rc # 0
    THEN IF r.parseable THEN [msg |-> r.out.error, out |-> None]
         ELSE [msg |-> "Unable to parse error", out |-> None]
    ELSE IF r.parseable THEN [msg |-> "", out |-> r.out]
         ELSE [msg |-> "Failed to parse output of command!", out |-> None]

\* Conda._run_package_cmd: the arguments after the subcommand.
_run_package_cmd(channels, args) ==
    <<Word("--quiet"), Word("--yes")>> \o args
      \o Concat([i \in 1..Len(channels) |-> <<Word("--channel"), channels[i]>>])

\* Conda._run_package_cmd: the actions of a parsed answer.
ActionsOf(out) == IF "actions" \in DOMAIN out THEN out.actions ELSE <<>>

\* Conda.list_envs
list_envs(out) == out.envs

\* Conda.list_packages
list_packages(out) ==
    [i \in 1..Len(out) |-> [name |-> out[i].name, version |-> out[i].version]]

\* Conda.check_env, once list_envs answered
check_env_listed(env, listed) == \E i \in 1..Len(listed) : listed[i] = env

\* Conda.install_packages: the package strings
pkg_strs(packages) ==
    [i \in 1..Len(packages) |->
        packages[i].name
          \o (IF Truthy(packages[i].version) THEN <<"=">> \o packages[i].version
              ELSE <<>>)
          \o (IF Truthy(packages[i].build) THEN <<"=">> \o packages[i].build
              ELSE <<>>)]

\* Conda.install_packages
install_packages(packages, channels, eargs) ==
    _run_package_cmd(channels, pkg_strs(packages) \o eargs)

\* Conda.remove_packages
remove_packages(packages, channels, eargs) ==
    _run_package_cmd(channels, packages \o eargs)

\* Conda.update_packages without the --dry-run flag of a dry run.
update_packages_no_dry_flag(packages, channels, eargs, dry_run) ==
    _run_package_cmd(channels, packages \o eargs)

\* Conda.update_packages
update_packages(packages, channels, eargs, dry_run) ==
    _run_package_cmd(channels,
        packages \o eargs \o (IF dry_run THEN <<Word("--dry-run")>> ELSE <<>>))

\* run_module: target_packages
target_packages ==
    [i \in 1..Len(params.name) |-> split_name_version(params.name[i], params.version)]

\* [p['name'] for p in packages]
NamesOf(packages) == [i \in 1..Len(packages) |-> packages[i].name]

----
\* The parameters a run may be given.
Params ==
    [name : SeqUpTo(Tokens, MaxTargets),
     state : {"present", "absent", "latest"},
     version : DefaultVersions,
     executable : {None, ExePath},
     channels : ChannelLists,
     environment : Environments]

\* The prefix of the environment the parameters address.
PrefixOf(env) ==
    IF ~Truthy(env) THEN RootPrefix
    ELSE IF Contains(env, Sep) THEN env ELSE PrefixOfName(env)

\* The installations a run may start from: the base environment, and the
\* addressed environment or not; only the addressed one holds packages.
Worlds(env) ==
    LET p == PrefixOf(env)
    IN  { [q \in {RootPrefix, p} |-> IF q = p THEN m ELSE NoPackages] :
            m \in PackageMaps }
        \cup (IF p = RootPrefix THEN {} ELSE { [q \in {RootPrefix} |-> NoPackages] })

NoRun == [kind |-> "none"]

NoQuery == [asked |-> FALSE]

Init ==
    /\ params \in Params
    /\ check_mode \in BOOLEAN
    /\ envs \in Worlds(params.environment)
    /\ envs0 = envs
    /\ executable = None
    /\ env_args = <<>>
    /\ pc = "new"
    /\ result = [changed |-> FALSE, actions |-> <<>>]
    /\ failure = ""
    /\ installed_packages = <<>>
    /\ dry_actions = <<>>
    /\ cmds = <<>>
    /\ answered = ""
    /\ first = NoRun
    /\ query = NoQuery

\* module.fail_json that notes the message and returns to the caller.
fail_json_retry(m) ==
    /\ pc' = pc
    /\ failure' = m

\* module.fail_json(msg=m)
fail_json(m) ==
    /\ pc' = "failed"
    /\ failure' = m

\* module.exit_json(**r)
exit_json(r) ==
    /\ pc' = "done"
    /\ result' = r

\* conda = Conda(module, env)
Construct ==
    /\ pc = "new"
    /\ \E isfile \in BOOLEAN, bin_path \in {None, PathConda} :
         LET got == _get_conda(params.executable, isfile, bin_path)
         IN  IF got.msg # ""
             THEN /\ fail_json(got.msg)
                  /\ UNCHANGED <<executable, env_args>>
             ELSE /\ executable' = got.conda_exe
                  /\ env_args' = EnvArgs(params.environment)
                  /\ pc' = "check_env"
                  /\ UNCHANGED failure
    /\ UNCHANGED <<params, check_mode, result, installed_packages, dry_actions,
                   cmds, answered, envs, envs0, first, query>>

\* run_module creating every environment check_env did not find, whatever
\* the state.
EnvChecked_always_create(env_exists) ==
    IF env_exists
    THEN pc' = "list" /\ UNCHANGED result
    ELSE pc' = "create" /\ UNCHANGED result

\* run_module, after env_exists = conda.check_env(env): exit when there is
\* nothing to remove, go on to create the environment, or go on to list.
EnvChecked(env_exists) ==
    IF env_exists
    THEN pc' = "list" /\ UNCHANGED result
    ELSE IF params.state = "absent"
         THEN exit_json([changed |-> result.changed, actions |-> result.actions,
                         msg |-> "is already absent"])
         ELSE pc' = "create" /\ UNCHANGED result

\* One call of Conda._run_conda: the command line argv is handed to
\* run_command, and conda answers `a` after doing d.
Issue(argv, a, d) ==
    /\ cmds' = Append(cmds, argv)
    /\ envs' = d.world
    /\ answered' = a

\* What _run_conda makes of the answer.
Got(a, d) == _run_conda(run_command(a, d))

\* _run_conda calling fail_json: the run ends.
Abort(a, d) ==
    /\ fail_json(Got(a, d).msg)
    /\ UNCHANGED <<result, installed_packages, dry_actions>>

\* A step of run_module that runs no command.
NoCall == UNCHANGED <<cmds, answered, envs, failure>>

\* `if env:` with no environment, or check_env answering without a command
\* (base, or a path looked up with os.path.isdir).
CheckEnvLocal ==
    /\ pc = "check_env"
    /\ LET env == params.environment
       IN  IF ~Truthy(env) THEN pc' = "list" /\ UNCHANGED result
           ELSE /\ env = Base \/ Contains(env, Sep)
                /\ EnvChecked(IF env = Base THEN TRUE ELSE env \in DOMAIN envs)
    /\ NoCall
    /\ UNCHANGED <<params, check_mode, executable, env_args,
                   installed_packages, dry_actions, envs0, first, query>>

\* check_env asking list_envs (`conda env list`).
CheckEnvListed ==
    /\ pc = "check_env"
    /\ LET env == params.environment
           argv == CondaCmd(executable, <<Word("env")>>, <<Word("list")>>)
       IN  /\ Truthy(env) /\ env # Base /\ ~Contains(env, Sep)
           /\ \E a \in Answers : \E d \in Outcomes(a, argv, envs) :
                /\ Issue(argv, a, d)
                /\ IF Got(a, d).msg # "" THEN Abort(a, d)
                   ELSE /\ EnvChecked(check_env_listed(env, list_envs(Got(a, d).out)))
                        /\ UNCHANGED <<failure, installed_packages, dry_actions>>
    /\ UNCHANGED <<params, check_mode, executable, env_args, envs0, first, query>>

\* conda.create_env(env); result['changed'] = True
CreateEnv ==
    /\ pc = "create"
    /\ LET argv == CondaCmd(executable, <<Word("create")>>,
                            <<Word("--yes"), Word("--quiet")>> \o env_args)
       IN  \E a \in Answers : \E d \in Outcomes(a, argv, envs) :
             /\ Issue(argv, a, d)
             /\ IF Got(a, d).msg # "" THEN Abort(a, d)
                ELSE /\ result' = [result EXCEPT !.changed = TRUE]
                     /\ pc' = "list"
                     /\ UNCHANGED <<failure, installed_packages, dry_actions>>
    /\ UNCHANGED <<params, check_mode, executable, env_args, envs0, first, query>>

\* installed_packages = conda.list_packages(env)
ListPackages ==
    /\ pc = "list"
    /\ LET argv == CondaCmd(executable, <<Word("list")>>, env_args)
       IN  \E a \in Answers : \E d \in Outcomes(a, argv, envs) :
             /\ Issue(argv, a, d)
             /\ IF Got(a, d).msg # "" THEN Abort(a, d)
                ELSE /\ installed_packages' = list_packages(Got(a, d).out)
                     /\ pc' = params.state
                     /\ UNCHANGED <<failure, result, dry_actions>>
    /\ UNCHANGED <<params, check_mode, executable, env_args, envs0, first, query>>

\* A package command after which result['changed'] is left as it was.
Mutate_forgets_changed(argv, next) ==
    \E a \in Answers : \E d \in Outcomes(a, argv, envs) :
      /\ Issue(argv, a, d)
      /\ IF Got(a, d).msg # "" THEN Abort(a, d)
         ELSE /\ result' = [result EXCEPT !.actions = @ \o ActionsOf(Got(a, d).out)]
              /\ pc' = next
              /\ UNCHANGED <<failure, installed_packages, dry_actions>>

\* A package command run for its effect: its actions are added to the
\* result, changed is set, and the run goes on at `next` ("done":
\* module.exit_json(**result)).
Mutate(argv, next) ==
    \E a \in Answers : \E d \in Outcomes(a, argv, envs) :
      /\ Issue(argv, a, d)
      /\ IF Got(a, d).msg # "" THEN Abort(a, d)
         ELSE /\ result' = [result EXCEPT !.actions = @ \o ActionsOf(Got(a, d).out),
                                          !.changed = TRUE]
              /\ pc' = next
              /\ UNCHANGED <<failure, installed_packages, dry_actions>>

\* The branch without a command setting changed inside `if not check_mode`.
Skip_unchanged(change, next) ==
    /\ result' = result
    /\ pc' = next
    /\ NoCall
    /\ UNCHANGED <<installed_packages, dry_actions>>

\* The same branch when nothing is to be done or check mode is on: changed
\* is set when something was to be done.
Skip(change, next) ==
    /\ result' = [result EXCEPT !.changed = @ \/ change]
    /\ pc' = next
    /\ NoCall
    /\ UNCHANGED <<installed_packages, dry_actions>>

\* state == 'present'
Present ==
    /\ pc = "present"
    /\ LET absent_packages ==
               get_absent_packages(target_packages, installed_packages, TRUE)
       IN  IF absent_packages # <<>> /\ ~check_mode
           THEN Mutate(CondaCmd(executable, <<Word("install")>>,
                           install_packages(absent_packages, params.channels, env_args)),
                       "done")
           ELSE Skip(absent_packages # <<>>, "done")
    /\ UNCHANGED <<params, check_mode, executable, env_args, envs0, first, query>>

\* state == 'absent'
Absent ==
    /\ pc = "absent"
    /\ LET present_packages ==
               get_present_packages(target_packages, installed_packages, FALSE)
           names == NamesOf(present_packages)
       IN  IF present_packages # <<>> /\ ~check_mode
           THEN Mutate(CondaCmd(executable, <<Word("remove")>>,
                           remove_packages(names, params.channels, env_args)),
                       "done")
           ELSE Skip(present_packages # <<>>, "done")
    /\ UNCHANGED <<params, check_mode, executable, env_args, envs0, first, query>>

\* state == 'latest': the missing packages
LatestInstall ==
    /\ pc = "latest"
    /\ LET absent_packages ==
               get_absent_packages(target_packages, installed_packages, FALSE)
       IN  IF absent_packages # <<>> /\ ~check_mode
           THEN Mutate(CondaCmd(executable, <<Word("install")>>,
                           install_packages(absent_packages, params.channels, env_args)),
                       "latest_dry")
           ELSE Skip(absent_packages # <<>>, "latest_dry")
    /\ UNCHANGED <<params, check_mode, executable, env_args, envs0, first, query>>

\* state == 'latest': the dry run of the update of the present packages
LatestDryRun ==
    /\ pc = "latest_dry"
    /\ LET present_packages ==
               get_present_packages(target_packages, installed_packages, FALSE)
           names == NamesOf(present_packages)
           argv == CondaCmd(executable, <<Word("update")>>,
                            update_packages(names, params.channels, env_args, TRUE))
       IN  IF present_packages = <<>>
           THEN Skip(FALSE, "done")
           ELSE \E a \in Answers : \E d \in Outcomes(a, argv, envs) :
                  /\ Issue(argv, a, d)
                  /\ IF Got(a, d).msg # "" THEN Abort(a, d)
                     ELSE /\ dry_actions' = ActionsOf(Got(a, d).out)
                          /\ UNCHANGED <<failure, installed_packages>>
                          /\ IF ActionsOf(Got(a, d).out) = <<>>
                             THEN pc' = "done" /\ UNCHANGED result
                             ELSE IF check_mode
                                  THEN /\ pc' = "done"
                                       /\ result' = [result EXCEPT !.changed = TRUE]
                                  ELSE pc' = "latest_update" /\ UNCHANGED result
    /\ UNCHANGED <<params, check_mode, executable, env_args, envs0, first, query>>

\* state == 'latest': the update the dry run asked for
LatestUpdate ==
    /\ pc = "latest_update"
    /\ LET present_packages ==
               get_present_packages(target_packages, installed_packages, FALSE)
           names == NamesOf(present_packages)
       IN  Mutate(CondaCmd(executable, <<Word("update")>>,
                      update_packages(names, params.channels, env_args, FALSE)),
                  "done")
    /\ UNCHANGED <<params, check_mode, executable, env_args, envs0, first, query>>

\* One run of the module.
Next ==
    \/ Construct
    \/ CheckEnvLocal
    \/ CheckEnvListed
    \/ CreateEnv
    \/ ListPackages
    \/ Present
    \/ Absent
    \/ LatestInstall
    \/ LatestDryRun
    \/ LatestUpdate

Spec == Init /\ [][Next]_vars

\* ------------------------------------------------------------------------
\* Two runs of the module.  Every run is a new process: nothing but the
\* conda installation passes from one to the next.

\* run_module starting anew, in check mode or not, on the installation w.
Restart(check, w, kind) ==
    /\ pc = "done"
    /\ first = NoRun
    /\ first' = [kind |-> kind, check_mode |-> check_mode, result |-> result,
                 cmds |-> cmds, dry_actions |-> dry_actions]
    /\ check_mode' = check
    /\ envs' = w
    /\ envs0' = w
    /\ executable' = None
    /\ env_args' = <<>>
    /\ pc' = "new"
    /\ result' = [changed |-> FALSE, actions |-> <<>>]
    /\ installed_packages' = <<>>
    /\ dry_actions' = <<>>
    /\ cmds' = <<>>
    /\ answered' = ""
    /\ UNCHANGED <<params, failure, query>>

\* After a run in check mode, the same parameters run in normal mode on the
\* installation the check-mode run started from.
Twin == check_mode /\ Restart(FALSE, envs0, "twin")

\* After a run, the same run again on the installation it left.
Rerun == Restart(check_mode, envs, "rerun")

NextTwin == Next \/ Twin

NextRerun == Next \/ Rerun

SpecTwin == Init /\ [][NextTwin]_vars

SpecRerun == Init /\ [][NextRerun]_vars

\* ------------------------------------------------------------------------
\* Conda._is_present on its own.

\* Longest list of installed packages _is_present is asked about.
MaxInstalled == 2

VEmpty == <<>>
V1 == <<"1">>
V12 == <<"1", ".", "2">>
V1271 == <<"1", ".", "2", ".", "7", ".", "1">>
V10 == <<"1", "0">>
V102 == <<"1", "0", ".", "2">>

\* The package specs asked about: every name with no version, an empty
\* one, and versions of one to four components.
QueryPackages ==
    [name : {PkgNames[i] : i \in 1..Len(PkgNames)},
     version : {None, VEmpty, V1, V12, V13, V127, V1271, V10},
     build : {None}]

\* The lists `conda list` may print: one record for a package name.
QueryInstalled ==
    { l \in SeqUpTo([name : {PkgNames[i] : i \in 1..Len(PkgNames)},
                     version : {V1, V12, V127, V102}], MaxInstalled) :
        \A i, j \in 1..Len(l) : l[i].name = l[j].name => i = j }

InitPresent ==
    /\ params = [name |-> <<>>, state |-> "present", version |-> None,
                 executable |-> None, channels |-> <<>>, environment |-> None]
    /\ check_mode = FALSE
    /\ envs = [q \in {RootPrefix} |-> NoPackages]
    /\ envs0 = envs
    /\ executable = None
    /\ env_args = <<>>
    /\ pc = "query"
    /\ result = [changed |-> FALSE, actions |-> <<>>]
    /\ failure = ""
    /\ installed_packages = <<>>
    /\ dry_actions = <<>>
    /\ cmds = <<>>
    /\ answered = ""
    /\ first = NoRun
    /\ query \in [asked : {FALSE}, package : QueryPackages,
                  installed : QueryInstalled, check_version : BOOLEAN]

\* present = Conda._is_present(package, installed_packages, check_version)
IsPresentCall ==
    /\ pc = "query"
    /\ ~query.asked
    /\ query' = [asked |-> TRUE, package |-> query.package,
                 installed |-> query.installed,
                 check_version |-> query.check_version,
                 present |-> _is_present(query.package, query.installed,
                                         query.check_version)]
    /\ UNCHANGED <<params, check_mode, executable, env_args, pc, result, failure,
                   installed_packages, dry_actions, cmds, answered, envs, envs0,
                   first>>

NextPresent == IsPresentCall

SpecPresent == InitPresent /\ [][NextPresent]_vars

\* ------------------------------------------------------------------------
\* The properties.

\* What a command line is.
IsEnvList(c) == c[2] = Word("env")
IsList(c) == c[2] = Word("list")
IsCreate(c) == c[2] = Word("create")
IsInstall(c) == c[2] = Word("install")
IsRemove(c) == c[2] = Word("remove")
IsUpdate(c) == c[2] = Word("update")
IsDryRun(c) == \E i \in 1..Len(c) : c[i] = Word("--dry-run")
IsRealUpdate(c) == IsUpdate(c) /\ ~IsDryRun(c)
IsMutating(c) == IsCreate(c) \/ IsInstall(c) \/ IsRemove(c) \/ IsRealUpdate(c)

\* The places in the command log of the commands of each kind.
Creates == {i \in 1..Len(cmds) : IsCreate(cmds[i])}
Installs == {i \in 1..Len(cmds) : IsInstall(cmds[i])}
Removes == {i \in 1..Len(cmds) : IsRemove(cmds[i])}
RealUpdates == {i \in 1..Len(cmds) : IsRealUpdate(cmds[i])}
Mutations == {i \in 1..Len(cmds) : IsMutating(cmds[i])}

\* The environment is configured and, when the run started, was not there.
EnvMissing ==
    /\ Truthy(params.environment)
    /\ PrefixOf(params.environment) \notin DOMAIN envs0

\* C1: in check mode no create, install, remove or real update command is
\* ever issued.
C1_CheckModeIssuesNoMutation ==
    check_mode => Mutations = {}

\* C2: a configured environment that does not exist, with state=absent:
\* the run issues no create, list, remove, install or update command, never
\* leaves the environment check, and ends with changed=false, no actions
\* and a message, in check mode and in normal mode.
C2_AbsentOnMissingEnv ==
    (EnvMissing /\ params.state = "absent")
      => /\ \A i \in 1..Len(cmds) : IsEnvList(cmds[i])
         /\ pc \in {"new", "check_env", "done", "failed"}
         /\ pc = "failed" => answered # "ok"
         /\ pc = "done" => /\ result.changed = FALSE
                           /\ result.actions = <<>>
                           /\ "msg" \in DOMAIN result

C2_Witness ==
    /\ EnvMissing /\ params.state = "absent" /\ ~check_mode
    /\ params.name # <<>>
    /\ pc = "done"

\* C3: a configured environment that does not exist, with state present or
\* latest, is created exactly once, before the package list and before any
\* install or update, and the result has changed=true; an environment that
\* exists, base, or no environment is never created.
C3_CreateOnlyWhenMissing ==
    /\ (EnvMissing /\ params.state # "absent" /\ pc = "done")
         => /\ Cardinality(Creates) = 1
            /\ \A i \in Creates :
                 \A j \in 1..Len(cmds) :
                    (IsList(cmds[j]) \/ IsInstall(cmds[j]) \/ IsUpdate(cmds[j]))
                      => i < j
            /\ result.changed
    /\ ~EnvMissing => Creates = {}

\* The targets that miss, version checked, in the list the run obtained.
AbsentVersioned == get_absent_packages(target_packages, installed_packages, TRUE)

\* C4 as stated: with state=present the result has changed=true iff some
\* target is absent under the version-checked test.
C4_ChangedIffAbsent ==
    (params.state = "present" /\ pc = "done")
      => (result.changed <=> AbsentVersioned # <<>>)

\* C4, amended: with state=present the result has changed=true iff some
\* target is absent under the version-checked test or the run created the
\* environment.
C4_ChangedIffAbsentOrCreated ==
    (params.state = "present" /\ pc = "done")
      => (result.changed <=> (AbsentVersioned # <<>> \/ Creates # {}))

C4_Witness ==
    /\ params.state = "present" /\ pc = "done"
    /\ check_mode
    /\ Creates = {}
    /\ AbsentVersioned # <<>>
    /\ result.changed

\* The installed record p answers the target t: the names are equal and,
\* when the version is checked and t asks for one, the dot-separated
\* components t asks for are the first components of p's version.
Fits(t, p, check_version) ==
    /\ p.name = t.name
    /\ (check_version /\ Truthy(t.version))
         => LET want == Split(t.version, ".")
                have == Split(p.version, ".")
            IN  /\ Len(want) <= Len(have)
                /\ \A k \in 1..Len(want) : have[k] = want[k]

\* Some record of the list answers the target.
Satisfied(t, installed, check_version) ==
    \E i \in 1..Len(installed) : Fits(t, installed[i], check_version)

\* The targets the list the run obtained does not satisfy, version checked.
Missing ==
    SelectSeq(target_packages, LAMBDA t : ~Satisfied(t, installed_packages, TRUE))

\* The names of the targets installed under any version, in target order.
InstalledNames ==
    NamesOf(SelectSeq(target_packages,
                      LAMBDA t : Satisfied(t, installed_packages, FALSE)))

\* C5: outside check mode, at most one install and one remove are issued;
\* with state=present the install is issued iff a target misses (version
\* checked) and names exactly the missing targets in target order; with
\* state=absent the remove is issued iff a target name is installed and
\* names exactly the targets installed by name, whatever the versions.
C5_CommandsCarryDelta ==
    ~check_mode
      => /\ Cardinality(Installs) <= 1
         /\ Cardinality(Removes) <= 1
         /\ params.state = "present"
              => /\ \A i \in Installs :
                      LET args == PackageArgs(cmds[i])
                      IN  [k \in 1..Len(args) |-> split_name_version(args[k], None)]
                            = Missing
                 /\ pc = "done" => (Installs # {} <=> Missing # <<>>)
                 /\ Removes = {}
         /\ params.state = "absent"
              => /\ \A i \in Removes :
                      PackageArgs(cmds[i]) = InstalledNames
                 /\ pc = "done"
                      => (Removes # {} <=> InstalledNames # <<>>)
                 /\ Installs = {}

C5_Witness ==
    /\ ~check_mode /\ params.state = "present" /\ pc = "done"
    /\ Installs # {}
    /\ Missing # <<>>
    /\ Len(Missing) < Len(target_packages)

\* C6: with state=latest a real update is issued only after a dry-run update
\* of the same names that reported actions; when every target is installed
\* by name, the dry run reported none and no environment was created, the
\* run issues no real update and no install and ends with changed=false.
C6_UpdateAfterDryRun ==
    params.state = "latest"
      => /\ \A i \in RealUpdates :
              /\ dry_actions # <<>>
              /\ \E j \in 1..(i - 1) :
                    /\ IsUpdate(cmds[j]) /\ IsDryRun(cmds[j])
                    /\ PackageArgs(cmds[j]) = PackageArgs(cmds[i])
         /\ ( /\ pc = "done"
              /\ \A k \in 1..Len(target_packages) :
                    Satisfied(target_packages[k], installed_packages, FALSE)
              /\ dry_actions = <<>>
              /\ Creates = {} )
              => /\ RealUpdates = {}
                 /\ Installs = {}
                 /\ ~result.changed

C6_Witness ==
    /\ params.state = "latest" /\ pc = "done"
    /\ RealUpdates # {}
    /\ Installs # {}

\* C7: a run in check mode and the run in normal mode with the same
\* parameters, from the same installation and with the same answer to the
\* dry-run update, both ending successfully, report the same changed.
C7_CheckModePredictsChanged ==
    (first.kind = "twin" /\ pc = "done")
      => (dry_actions = first.dry_actions
            => result.changed = first.result.changed)

C7_Witness ==
    /\ first.kind = "twin" /\ pc = "done"
    /\ first.check_mode /\ ~check_mode
    /\ params.state = "latest"
    /\ dry_actions # <<>> /\ dry_actions = first.dry_actions
    /\ result.changed

\* C8: every error ends the run: an answer that is a nonzero exit or not
\* JSON, and an executable that is invalid or missing, leave the run
\* failed; a failed run issues no further command, repeats none and
\* reports no result.
C8_ErrorsAreFatal ==
    [][ /\ answered' \notin {"", "ok"} => (pc' = "failed" /\ failure' # "")
        /\ pc' \notin {"new", "failed", "query"} => Truthy(executable')
        /\ pc' = "failed" <=> failure' # ""
        /\ failure # "" => (cmds' = cmds /\ pc' = "failed" /\ result' = result) ]_vars

C8_Witness ==
    /\ pc = "failed"
    /\ answered = "no_json"
    /\ Len(cmds) > 1

\* C9: _is_present answers true iff some installed package has the name of
\* the spec and, when the version is checked and the spec has one, the N
\* components of the spec's version are the first N components of that
\* package's version; a name match is enough otherwise.
C9_IsPresentIsPrefixMatch ==
    query.asked
      => (query.present
            <=> Satisfied(query.package, query.installed, query.check_version))

C9_Witness ==
    /\ query.asked /\ query.present /\ query.check_version
    /\ query.package.version = V12
    /\ \E i \in 1..Len(query.installed) :
          /\ query.installed[i].name = query.package.name
          /\ query.installed[i].version = V127

\* C10: after a successful run in normal mode with state present or absent,
\* the same run again, on the installation the first one left, issues no
\* mutating command and reports changed=false.
C10_SecondRunChangesNothing ==
    (first.kind = "rerun" /\ ~check_mode /\ params.state \in {"present", "absent"})
      => /\ Mutations = {}
         /\ pc = "done" => ~result.changed

====
